---- MODULE Spec2Model ----
(***************************************************************************)
(* Model of core/trade_engine.py (TradeEngine): the position lifecycle     *)
(* driven by run(), run_cycle() and stop(), against a venue that holds at  *)
(* most one one-way position for the symbol.                               *)
(*                                                                         *)
(* Conventions.                                                            *)
(*  - Python None for position / position_start_time is the empty sequence *)
(*    <<>>, a present value v is <<v>>; "if self.position" is              *)
(*    position # <<>>.  position_side None is the string "None".           *)
(*  - entry_price 0 is the value __init__ and _clear_position assign.      *)
(*  - Quantities are counted in halves of a contract (1 = 0.5, 2 = 1.0),   *)
(*    market prices in whole currency units around 100; the prices sent to *)
(*    the venue and tick_size in thousandths of a unit, so that the        *)
(*    percentages of the risk policy stay exact.                           *)
(*  - One cycle of run_cycle is a sequence of steps (pc); every venue call *)
(*    is synchronous, so the venue can act only between steps.             *)
(***************************************************************************)
EXTENDS Integers, Sequences, FiniteSets, TLC

VARIABLES
    running,              \* TradeEngine.running
    position,             \* TradeEngine.position: <<>> or <<[side, size, avg_price, unrealized_pnl]>>
    profit_lock_active,   \* TradeEngine.profit_lock_active
    entry_price,          \* TradeEngine.entry_price
    position_side,        \* TradeEngine.position_side
    position_start_time,  \* TradeEngine.position_start_time: <<>> or <<t>>
    pc,                   \* where run()/run_cycle()/stop() stand
    df,                   \* run_cycle local: last close of the fetched market data
    signal,               \* run_cycle local: the strategy's signal, "None" or an action
    now,                  \* the wall clock read by datetime.now()
    venPos,               \* venue: <<>> or <<[side, size, avgPrice]>>
    venTrailing,          \* venue: a trailing stop is attached to the position
    venSLTP,              \* venue: stop-loss/take-profit attached to the position
    calls,                \* venue commands issued by the last step, in order
    notes,                \* notifications emitted by the last step, in order
    delivery,             \* for each of them, whether the channel delivered it
    ret,                  \* outcome of the operation the last step ran
    trailSubs,            \* trailing-stop submissions since the venue position was opened
    lockNotes             \* profit_lock_activated notifications since the venue position was opened

vars == <<running, position, profit_lock_active, entry_price, position_side,
          position_start_time, pc, df, signal, now, venPos, venTrailing, venSLTP,
          calls, notes, delivery, ret, trailSubs, lockNotes>>

engineVars == <<position, profit_lock_active, entry_price, position_side, position_start_time>>
venueVars == <<venPos, venTrailing, venSLTP>>

----
\* Bounds of the model
MaxMove == 2
MaxTime == 3
MaxRawQty == 2
MaxQtyStep == 2
MaxMinQty == 2
MaxTick == 3
MaxFormatQty == 3
MaxVenueSize == 3
MaxCount == 2

\* Last closes of the market data, in whole units: the reference price, or
\* MaxMove below or above it
Prices == {100 - MaxMove, 100, 100 + MaxMove}
Pnls == {-1, 1}
Min(a, b) == IF a < b THEN a ELSE b
Max(a, b) == IF a > b THEN a ELSE b


----
\* Inputs and responses

\* Signal.action of the strategy's signal; "None" is a cycle without a signal
Actions == {"BUY", "SELL", "HOLD"}
Signals == Actions \cup {"None"}

\* get_symbol_info(): <<>> (None) or the instrument's quantisation rules
\* (min_qty and qty_step in halves, tick_size in thousandths)
\* for the finest instrument or the coarsest one
InfoResp ==
    {<<>>,
     <<[min_qty |-> 1, qty_step |-> 1, tick_size |-> 1]>>,
     <<[min_qty |-> MaxMinQty, qty_step |-> MaxQtyStep, tick_size |-> MaxTick]>>}

\* every instrument within the bounds
Instruments ==
    [min_qty : 1..MaxMinQty, qty_step : 1..MaxQtyStep, tick_size : 1..MaxTick]

\* str.lower() on the venue's side strings
Lower(side) == IF side = "Buy" THEN "buy" ELSE IF side = "Sell" THEN "sell" ELSE side

\* format_qty as it would be without the clamp to min_qty
format_qty_noClamp(info, raw_qty) ==
    LET step == info.qty_step
        qty == (raw_qty \div step) * step
        decimals == IF step % 2 = 0 THEN 0 ELSE 1
    IN  IF decimals # 0 THEN qty ELSE (qty \div 2) * 2

\* format_qty: truncate to the step, clamp to min_qty, print with the step's decimals
format_qty(info, raw_qty) ==
    LET step == info.qty_step
        truncated == (raw_qty \div step) * step
        qty == Max(truncated, info.min_qty)
        decimals == IF step % 2 = 0 THEN 0 ELSE 1
    IN  IF decimals # 0 THEN qty ELSE (qty \div 2) * 2

\* Python's round(): to the nearest integer, a tie to the even one
RoundHalfEven(num, den) ==
    LET q == num \div den
        r == num % den
    IN  IF 2 * r < den THEN q
        ELSE IF 2 * r > den THEN q + 1
        ELSE IF q % 2 = 0 THEN q ELSE q + 1

\* format_price as it would be if it truncated to the tick
format_price_truncates(info, price) ==
    LET tick == info.tick_size
    IN  IF tick = 0 THEN price ELSE (price \div tick) * tick

\* format_price: round(price / tick) * tick, printed with the tick's decimals
\* (a multiple of the tick has no more decimals than the tick, so printing
\* keeps its value)
format_price(info, price) ==
    LET tick == info.tick_size
    IN  IF tick = 0 THEN price ELSE RoundHalfEven(price, tick) * tick

\* RiskManager prices, in thousandths, for a market price in whole units:
\* the stop-loss and take-profit of a 'long' or 'short' side and the
\* trailing-stop price, offset from the price by the policy's percentages
StopLossPermille == 15
TakeProfitPermille == 30
TrailingStopPermille == 10
get_stop_loss_price(price, side) ==
    IF side = "long" THEN price * (1000 - StopLossPermille)
                     ELSE price * (1000 + StopLossPermille)
get_take_profit_price(price, side) ==
    IF side = "long" THEN price * (1000 + TakeProfitPermille)
                     ELSE price * (1000 - TakeProfitPermille)
get_trailing_stop_price(price, side) ==
    IF side \in {"long", "buy"} THEN price * (1000 - TrailingStopPermille)
                               ELSE price * (1000 + TrailingStopPermille)
Abs(x) == IF x < 0 THEN -x ELSE x

\* RiskManager.should_activate_profit_lock: the outcomes it can return.  The
\* gain is signed by the side for "long"/"short"; for another side string the
\* policy's reading is not fixed, so either reading is possible.
ProfitLockActivationPct == 2
GainReached(entry, current, isLong) ==
    IF isLong THEN (current - entry) * 100 >= ProfitLockActivationPct * entry
              ELSE (entry - current) * 100 >= ProfitLockActivationPct * entry
should_activate_profit_lock(entry, current, side) ==
    IF side = "long" THEN {GainReached(entry, current, TRUE)}
    ELSE IF side = "short" THEN {GainReached(entry, current, FALSE)}
    ELSE {GainReached(entry, current, TRUE), GainReached(entry, current, FALSE)}

----
\* The venue (one-way mode, one position per symbol)

VenueSize == IF venPos = <<>> THEN 0 ELSE venPos[1].size

\* whether the venue can accept a market order; it may still reject it
OrderAcceptable(side, qty, reduceOnly) ==
    /\ qty > 0
    /\ IF reduceOnly
         THEN venPos # <<>> /\ venPos[1].side # side
         ELSE IF venPos = <<>> THEN qty <= MaxVenueSize
              ELSE IF venPos[1].side = side THEN venPos[1].size + qty <= MaxVenueSize
              ELSE TRUE

\* the venue's position after it accepted a market order filled at price fill
AfterOrder(side, qty, reduceOnly, fill) ==
    IF venPos = <<>> THEN <<[side |-> side, size |-> qty, avgPrice |-> fill]>>
    ELSE LET p == venPos[1] IN
         IF p.side = side THEN <<[p EXCEPT !.size = p.size + qty]>>
         ELSE IF qty < p.size THEN <<[p EXCEPT !.size = p.size - qty]>>
         ELSE IF qty = p.size \/ reduceOnly THEN <<>>
         ELSE <<[side |-> side, size |-> qty - p.size, avgPrice |-> fill]>>

\* the venue's position is the same one before and after the step
SamePosition(before, after) ==
    before # <<>> /\ after # <<>> /\ before[1].side = after[1].side

\* per-position counters: reset when the venue position ends or is replaced
Counted(c, add) ==
    IF SamePosition(venPos, venPos') THEN Min(c + add, MaxCount)
    ELSE IF venPos' # <<>> /\ venPos = <<>> THEN Min(add, MaxCount)
    ELSE 0

----
\* TradeEngine

\* _clear_position as it would be if it left profit_lock_active alone
ClearPosition_keepsLock ==
    /\ position' = <<>>
    /\ UNCHANGED profit_lock_active
    /\ entry_price' = 0
    /\ position_side' = "None"
    /\ position_start_time' = <<>>

\* _clear_position
ClearPosition ==
    /\ position' = <<>>
    /\ profit_lock_active' = FALSE
    /\ entry_price' = 0
    /\ position_side' = "None"
    /\ position_start_time' = <<>>

\* check_position as it would be if it returned None for an empty venue
\* position without clearing the state
check_position_keepsOnFlat(resp, pnl) ==
    IF resp = "fail"
      THEN ClearPosition /\ ret' = "check_fail"
      ELSE IF venPos = <<>>
        THEN /\ UNCHANGED engineVars
             /\ ret' = IF position # <<>> THEN "check_passive" ELSE "check_flat"
        ELSE /\ position_start_time' = IF position = <<>> THEN <<now>> ELSE position_start_time
             /\ position' = <<[side |-> venPos[1].side, size |-> venPos[1].size,
                               avg_price |-> venPos[1].avgPrice, unrealized_pnl |-> pnl]>>
             /\ entry_price' = venPos[1].avgPrice
             /\ position_side' = Lower(venPos[1].side)
             /\ UNCHANGED profit_lock_active
             /\ ret' = "check_open"

\* check_position as it would be without the entry_price assignment
check_position_noEntryPrice(resp, pnl) ==
    IF resp = "fail" \/ venPos = <<>>
      THEN /\ ClearPosition
           /\ ret' = IF resp = "fail" THEN "check_fail"
                     ELSE IF position # <<>> THEN "check_passive" ELSE "check_flat"
      ELSE /\ position_start_time' = IF position = <<>> THEN <<now>> ELSE position_start_time
           /\ position' = <<[side |-> venPos[1].side, size |-> venPos[1].size,
                             avg_price |-> venPos[1].avgPrice, unrealized_pnl |-> pnl]>>
           /\ UNCHANGED entry_price
           /\ position_side' = Lower(venPos[1].side)
           /\ UNCHANGED profit_lock_active
           /\ ret' = "check_open"

\* check_position: resp is "fail" (retCode # 0 or an exception) or "ok"; pnl is
\* the unrealisedPnl the venue reports.  ret tells the outcome: the query
\* failed, the venue holds a position, it holds none, or it holds none while
\* the controller believed it had one (a passive close).
check_position(resp, pnl) ==
    IF resp = "fail" \/ venPos = <<>>
      THEN /\ ClearPosition
           /\ ret' = IF resp = "fail" THEN "check_fail"
                     ELSE IF position # <<>> THEN "check_passive" ELSE "check_flat"
      ELSE /\ ret' = "check_open"
           /\ position_start_time' = IF position = <<>> THEN <<now>> ELSE position_start_time
           /\ position' = <<[side |-> venPos[1].side, size |-> venPos[1].size,
                             avg_price |-> venPos[1].avgPrice, unrealized_pnl |-> pnl]>>
           /\ entry_price' = venPos[1].avgPrice
           /\ position_side' = Lower(venPos[1].side)
           /\ UNCHANGED profit_lock_active

Init ==
    /\ running = FALSE
    /\ position = <<>>
    /\ profit_lock_active = FALSE
    /\ entry_price = 0
    /\ position_side = "None"
    /\ position_start_time = <<>>
    /\ pc = "constructed"
    /\ df = 0
    /\ signal = "None"
    /\ now = 0
    /\ venPos = <<>>
    /\ venTrailing = FALSE
    /\ venSLTP = FALSE
    /\ calls = <<>>
    /\ notes = <<>>
    /\ delivery = <<>>
    /\ ret = "none"
    /\ trailSubs = 0
    /\ lockNotes = 0

\* run_cycle returns: its locals are gone
EndOfCycle == df' = 0 /\ signal' = "None"

\* run_cycle as it would be without its except: the exception leaves run()'s
\* loop
CycleError_propagates == pc' = "stopped" /\ EndOfCycle

\* run_cycle's "except Exception": the cycle ends, run()'s loop goes on
CycleError == pc' = "idle" /\ EndOfCycle

\* run(): self.running = True, then the loop
Run ==
    /\ pc = "constructed"
    /\ running' = TRUE
    /\ pc' = "idle"
    /\ calls' = <<>> /\ notes' = <<>> /\ delivery' = <<>> /\ ret' = "none"
    /\ UNCHANGED <<engineVars, venueVars, df, signal, now, trailSubs, lockNotes>>

\* run_cycle: get_market_data(); None or an empty frame ends the cycle
GetMarketData ==
    /\ pc = "idle" /\ running
    /\ now < MaxTime
    /\ now' = now + 1
    /\ \E d \in {0} \cup Prices :
         /\ df' = d
         /\ pc' = IF d = 0 THEN "idle" ELSE "check1"
    /\ signal' = "None"
    /\ calls' = <<>> /\ notes' = <<>> /\ delivery' = <<>> /\ ret' = "none"
    /\ UNCHANGED <<running, engineVars, venueVars, trailSubs, lockNotes>>

\* run_cycle: the first check_position()
CheckPosition1 ==
    /\ pc = "check1"
    /\ \E resp \in {"ok", "fail"}, pnl \in Pnls : check_position(resp, pnl)
    /\ pc' = "signal"
    /\ calls' = <<>> /\ notes' = <<>> /\ delivery' = <<>>
    /\ UNCHANGED <<running, venueVars, df, signal, now, trailSubs, lockNotes>>

\* run_cycle: strategy.generate_signal(df); an exception ends the cycle
GenerateSignal ==
    /\ pc = "signal"
    /\ \E s \in Signals \cup {"raise"} :
         IF s = "raise"
           THEN CycleError /\ ret' = "raised"
           ELSE /\ signal' = s
                /\ df' = df
                /\ pc' = IF position # <<>> THEN "risk" ELSE "display"
                /\ ret' = "none"
    /\ calls' = <<>> /\ notes' = <<>> /\ delivery' = <<>>
    /\ UNCHANGED <<running, engineVars, venueVars, now, trailSubs, lockNotes>>


----
\* Records of what a step sent to the venue and to the notifier

\* exchange.place_order(side, orderType="Market", qty[, reduceOnly=True]);
\* held is the size the venue held for the symbol when the order arrived
OrderCall(side, qty, reduceOnly, accepted) ==
    [op |-> "order", side |-> side, qty |-> qty, reduceOnly |-> reduceOnly,
     accepted |-> accepted, held |-> VenueSize, detail |-> <<>>]

\* the entry order of open_position: qty = format_qty(info, position_size)
EntryCall(side, raw, info, accepted) ==
    OrderCall(side, format_qty(info, raw), FALSE, accepted)

\* exchange.set_trading_stop(stopLoss, takeProfit) / (trailingStop)
StopCall(op, accepted) ==
    [op |-> op, side |-> "", qty |-> 0, reduceOnly |-> FALSE,
     accepted |-> accepted, held |-> VenueSize, detail |-> <<>>]

\* _set_stop_and_tp's submission; detail is
\* <<tick_size, sl_price, stopLoss sent, tp_price, takeProfit sent>>
SlTpCall(sig, current_price, info, accepted) ==
    LET side == IF sig = "BUY" THEN "long" ELSE "short"
        sl_price == get_stop_loss_price(current_price, side)
        tp_price == get_take_profit_price(current_price, side)
    IN  [StopCall("sltp", accepted)
            EXCEPT !.detail = <<info.tick_size, sl_price, format_price(info, sl_price),
                                tp_price, format_price(info, tp_price)>>]

\* _set_trailing_stop's submission; detail is
\* <<tick_size, trailing_distance, trailingStop sent>>
TrailingCall(current_price, side, info, accepted) ==
    LET trailing_price == get_trailing_stop_price(current_price, side)
        trailing_distance == Abs(current_price * 1000 - trailing_price)
    IN  [StopCall("trailing", accepted)
            EXCEPT !.detail = <<info.tick_size, trailing_distance,
                                format_price(info, trailing_distance)>>]

Note(kind, reason) == [kind |-> kind, reason |-> reason]

\* one notification handed to the channel, which delivers it or fails to
SendOne == delivery' \in {<<TRUE>>, <<FALSE>>}

\* send_message as it would be without its except: a failed delivery raises
\* into the caller
send_message_propagates(delivered) == IF delivered THEN "returned" ELSE "raised"

\* TelegramNotifier.send_message(message): a failure of bot.send_message is
\* caught and printed, so the call returns whether or not it was delivered
send_message(delivered) == "returned"

CountOp(cs, op) == Cardinality({i \in 1..Len(cs) : cs[i].op = op})
CountNote(ns, kind) == Cardinality({i \in 1..Len(ns) : ns[i].kind = kind})

\* handle_risk_management(current_price), with _set_trailing_stop
\*   act: what should_activate_profit_lock returned
\*   info: what get_symbol_info returned; out: the venue's answer to the
\*   trailing-stop submission ("ok", or "fail" for retCode # 0 or an exception)
handle_risk_management(current_price, act, info, out) ==
    IF position = <<>> \/ entry_price = 0 \/ profit_lock_active \/ ~act
      THEN /\ UNCHANGED <<engineVars, venueVars>>
           /\ calls' = <<>> /\ notes' = <<>> /\ delivery' = <<>>
           /\ ret' = "none"
      ELSE /\ profit_lock_active' = TRUE
           /\ IF info = <<>>
                THEN calls' = <<>> /\ UNCHANGED venTrailing
                ELSE LET accepted == out = "ok" /\ venPos # <<>> IN
                     /\ calls' = <<TrailingCall(current_price, position_side, info[1], accepted)>>
                     /\ venTrailing' = (venTrailing \/ accepted)
           /\ notes' = <<Note("profit_lock_activated", "")>>
           /\ \E delivered \in BOOLEAN :
                /\ delivery' = <<delivered>>
                /\ ret' = IF send_message(delivered) = "returned" THEN "none" ELSE "raised"
           /\ UNCHANGED <<position, entry_price, position_side, position_start_time,
                          venPos, venSLTP>>

\* run_cycle: if self.position: handle_risk_management(current_price)
\* (should_activate_profit_lock may raise, and so may a call that
\* handle_risk_management does not guard: the cycle ends)
RiskManagement ==
    /\ pc = "risk"
    /\ \/ /\ UNCHANGED <<engineVars, venueVars>>
          /\ calls' = <<>> /\ notes' = <<>> /\ delivery' = <<>>
          /\ ret' = "raised"
       \/ \E act \in should_activate_profit_lock(entry_price, df, position_side) :
            IF act /\ ~profit_lock_active
              THEN \E info \in InfoResp, out \in {"ok", "fail"} :
                      handle_risk_management(df, act, info, out)
              ELSE handle_risk_management(df, act, <<>>, "ok")
    /\ IF ret' = "raised" THEN CycleError
                          ELSE pc' = "check2" /\ UNCHANGED <<df, signal>>
    /\ trailSubs' = Counted(trailSubs, CountOp(calls', "trailing"))
    /\ lockNotes' = Counted(lockNotes, CountNote(notes', "profit_lock_activated"))
    /\ UNCHANGED <<running, now>>

\* run_cycle: the check_position() after risk management
CheckPosition2 ==
    /\ pc = "check2"
    /\ \E resp \in {"ok", "fail"}, pnl \in Pnls : check_position(resp, pnl)
    /\ pc' = "display"
    /\ calls' = <<>> /\ notes' = <<>> /\ delivery' = <<>>
    /\ UNCHANGED <<running, venueVars, df, signal, now, trailSubs, lockNotes>>

\* run_cycle: _display_status(df, current_price); an exception ends the cycle
DisplayStatus ==
    /\ pc = "display"
    /\ \E ok \in BOOLEAN :
         IF ok THEN pc' = "handle" /\ UNCHANGED <<df, signal>> /\ ret' = "none"
               ELSE CycleError /\ ret' = "raised"
    /\ calls' = <<>> /\ notes' = <<>> /\ delivery' = <<>>
    /\ UNCHANGED <<running, engineVars, venueVars, now, trailSubs, lockNotes>>


----
\* A step that sends nothing and changes nothing
Nothing ==
    /\ UNCHANGED <<engineVars, venueVars>>
    /\ calls' = <<>> /\ notes' = <<>> /\ delivery' = <<>>

\* the venue's protective orders after its position changed
VenueStopsAfter(sltpAccepted) ==
    /\ venTrailing' = (SamePosition(venPos, venPos') /\ venTrailing)
    /\ venSLTP' = (sltpAccepted \/ (SamePosition(venPos, venPos') /\ venSLTP))

\* close_position as it would be if it cleared the position state before
\* looking at the order's retCode
close_position_clearsOnReject(reason, out) ==
    IF position = <<>>
      THEN Nothing /\ ret' = "close_fail"
      ELSE LET side == IF position[1].side = "Buy" THEN "Sell" ELSE "Buy"
               qty == position[1].size
               accepted == out = "ok" /\ OrderAcceptable(side, qty, TRUE)
           IN  /\ calls' = <<OrderCall(side, qty, TRUE, accepted)>>
               /\ ClearPosition
               /\ IF accepted
                    THEN /\ venPos' = AfterOrder(side, qty, TRUE, 0)
                         /\ VenueStopsAfter(FALSE)
                         /\ notes' = <<Note("trade_closed", reason)>> /\ SendOne
                         /\ ret' = "close_ok"
                    ELSE /\ UNCHANGED venueVars
                         /\ notes' = <<>> /\ delivery' = <<>>
                         /\ ret' = "close_fail"

\* close_position as it would be if it reported a close with nothing held
close_position_closesNothing(reason, out) ==
    IF position = <<>>
      THEN /\ UNCHANGED <<engineVars, venueVars>>
           /\ calls' = <<>>
           /\ notes' = <<Note("trade_closed", reason)>> /\ SendOne
           /\ ret' = "close_ok"
      ELSE LET side == IF position[1].side = "Buy" THEN "Sell" ELSE "Buy"
               qty == position[1].size
               accepted == out = "ok" /\ OrderAcceptable(side, qty, TRUE)
           IN  /\ calls' = <<OrderCall(side, qty, TRUE, accepted)>>
               /\ IF accepted
                    THEN /\ venPos' = AfterOrder(side, qty, TRUE, 0)
                         /\ VenueStopsAfter(FALSE)
                         /\ notes' = <<Note("trade_closed", reason)>> /\ SendOne
                         /\ ClearPosition
                         /\ ret' = "close_ok"
                    ELSE /\ UNCHANGED <<engineVars, venueVars>>
                         /\ notes' = <<>> /\ delivery' = <<>>
                         /\ ret' = "close_fail"

\* close_position as it would be if it announced the close before looking at
\* the order's retCode
close_position_notifiesOnReject(reason, out) ==
    IF position = <<>>
      THEN Nothing /\ ret' = "close_fail"
      ELSE LET side == IF position[1].side = "Buy" THEN "Sell" ELSE "Buy"
               qty == position[1].size
               accepted == out = "ok" /\ OrderAcceptable(side, qty, TRUE)
           IN  /\ calls' = <<OrderCall(side, qty, TRUE, accepted)>>
               /\ notes' = <<Note("trade_closed", reason)>> /\ SendOne
               /\ IF accepted
                    THEN /\ venPos' = AfterOrder(side, qty, TRUE, 0)
                         /\ VenueStopsAfter(FALSE)
                         /\ ClearPosition
                         /\ ret' = "close_ok"
                    ELSE /\ UNCHANGED <<engineVars, venueVars>>
                         /\ ret' = "close_fail"

\* close_position(reason); out is the venue's answer to the reduce-only order
\* ("ok", or "fail" for retCode # 0 or an exception)
close_position(reason, out) ==
    IF position = <<>>
      THEN Nothing /\ ret' = "close_fail"
      ELSE LET side == IF position[1].side = "Buy" THEN "Sell" ELSE "Buy"
               qty == position[1].size
               accepted == out = "ok" /\ OrderAcceptable(side, qty, TRUE)
           IN  /\ calls' = <<OrderCall(side, qty, TRUE, accepted)>>
               /\ IF accepted
                    THEN /\ venPos' = AfterOrder(side, qty, TRUE, 0)
                         /\ VenueStopsAfter(FALSE)
                         /\ notes' = <<Note("trade_closed", reason)>>
                         /\ \E delivered \in BOOLEAN :
                              /\ delivery' = <<delivered>>
                              /\ IF send_message(delivered) = "returned"
                                   THEN ClearPosition /\ ret' = "close_ok"
                                   ELSE UNCHANGED engineVars /\ ret' = "close_fail"
                    ELSE /\ UNCHANGED <<engineVars, venueVars>>
                         /\ notes' = <<>> /\ delivery' = <<>>
                         /\ ret' = "close_fail"

\* open_position as it would be without the retCode check on the entry order
open_position_ignoresRetCode(sig, current_price, raw, info, out, stops) ==
    IF raw = -1 \/ info = <<>>
      THEN Nothing /\ ret' = "open_fail"
      ELSE LET qty == format_qty(info[1], raw)
               side == IF sig = "BUY" THEN "Buy" ELSE "Sell"
               accepted == out = "ok" /\ OrderAcceptable(side, qty, FALSE)
               after == IF accepted THEN AfterOrder(side, qty, FALSE, current_price) ELSE venPos
               sltpAccepted == stops = "ok" /\ after # <<>>
           IN  /\ calls' = <<EntryCall(side, raw, info[1], accepted),
                             SlTpCall(sig, current_price, info[1], sltpAccepted)>>
               /\ venPos' = after
               /\ VenueStopsAfter(sltpAccepted)
               /\ profit_lock_active' = FALSE
               /\ entry_price' = current_price
               /\ position_side' = Lower(side)
               /\ position_start_time' = <<now>>
               /\ UNCHANGED position
               /\ notes' = <<Note("trade_opened", side)>> /\ SendOne
               /\ ret' = IF accepted THEN "open_ok" ELSE "open_fail"

\* open_position as it would be if a failed stop-loss/take-profit submission
\* aborted the open
open_position_abortsOnStops(sig, current_price, raw, info, out, stops) ==
    IF raw = -1 \/ info = <<>>
      THEN Nothing /\ ret' = "open_fail"
      ELSE LET qty == format_qty(info[1], raw)
               side == IF sig = "BUY" THEN "Buy" ELSE "Sell"
               accepted == out = "ok" /\ OrderAcceptable(side, qty, FALSE)
               after == AfterOrder(side, qty, FALSE, current_price)
               sltpAccepted == stops = "ok" /\ after # <<>>
           IN  IF ~accepted
                 THEN /\ calls' = <<EntryCall(side, raw, info[1], FALSE)>>
                      /\ UNCHANGED <<engineVars, venueVars>>
                      /\ notes' = <<>> /\ delivery' = <<>>
                      /\ ret' = "open_fail"
                 ELSE /\ calls' = <<EntryCall(side, raw, info[1], TRUE),
                                    SlTpCall(sig, current_price, info[1], sltpAccepted)>>
                      /\ venPos' = after
                      /\ VenueStopsAfter(sltpAccepted)
                      /\ IF sltpAccepted
                           THEN /\ profit_lock_active' = FALSE
                                /\ entry_price' = current_price
                                /\ position_side' = Lower(side)
                                /\ position_start_time' = <<now>>
                                /\ UNCHANGED position
                                /\ notes' = <<Note("trade_opened", side)>> /\ SendOne
                                /\ ret' = "open_ok"
                           ELSE /\ UNCHANGED engineVars
                                /\ notes' = <<>> /\ delivery' = <<>>
                                /\ ret' = "open_fail"

\* open_position(signal), called by handle_signal with self.position None (the
\* "Force Close" branch needs self.position set and has no caller that sets it)
\*   raw: calculate_position_size's result, -1 when the sizing or the R:R
\*        arithmetic raises; info: get_symbol_info's result
\*   out: the venue's answer to the entry order, which fills at the last price
\*   stops: the venue's answer to the stop-loss/take-profit submission
open_position(sig, current_price, raw, info, out, stops) ==
    IF raw = -1 \/ info = <<>>
      THEN Nothing /\ ret' = "open_fail"
      ELSE LET qty == format_qty(info[1], raw)
               side == IF sig = "BUY" THEN "Buy" ELSE "Sell"
               accepted == out = "ok" /\ OrderAcceptable(side, qty, FALSE)
               after == AfterOrder(side, qty, FALSE, current_price)
               sltpAccepted == stops = "ok" /\ after # <<>>
           IN  IF ~accepted
                 THEN /\ calls' = <<EntryCall(side, raw, info[1], FALSE)>>
                      /\ UNCHANGED <<engineVars, venueVars>>
                      /\ notes' = <<>> /\ delivery' = <<>>
                      /\ ret' = "open_fail"
                 ELSE /\ calls' = <<EntryCall(side, raw, info[1], TRUE),
                                    SlTpCall(sig, current_price, info[1], sltpAccepted)>>
                      /\ venPos' = after
                      /\ VenueStopsAfter(sltpAccepted)
                      /\ profit_lock_active' = FALSE
                      /\ entry_price' = current_price
                      /\ position_side' = Lower(side)
                      /\ position_start_time' = <<now>>
                      /\ UNCHANGED position
                      /\ notes' = <<Note("trade_opened", side)>>
                      /\ \E delivered \in BOOLEAN :
                           /\ delivery' = <<delivered>>
                           /\ ret' = IF send_message(delivered) = "returned"
                                       THEN "open_ok" ELSE "open_fail"

\* is_opposite as it would be if every directional signal counted as opposite
is_opposite_anyDirection(current_side, action) ==
    action \in {"BUY", "SELL"}

\* is_opposite of handle_signal
is_opposite(current_side, action) ==
    \/ current_side = "Buy" /\ action = "SELL"
    \/ current_side = "Sell" /\ action = "BUY"

\* handle_signal as it would be with the reversal kept: an opposite signal
\* closes the position and enters the other side in the same call
handle_signal_reverses(sig, raw, info, out, stops) ==
    IF sig = "None"
      THEN Nothing /\ ret' = "none"
      ELSE IF position # <<>>
        THEN IF is_opposite(position[1].side, sig)
               THEN LET side == IF position[1].side = "Buy" THEN "Sell" ELSE "Buy"
                        qty == position[1].size
                        accepted == out = "ok" /\ OrderAcceptable(side, qty, TRUE)
                    IN  IF accepted
                          THEN /\ calls' = <<OrderCall(side, qty, TRUE, TRUE),
                                             OrderCall(side, qty, FALSE, TRUE)>>
                               /\ venPos' = <<[side |-> side, size |-> qty, avgPrice |-> df]>>
                               /\ VenueStopsAfter(FALSE)
                               /\ notes' = <<Note("trade_closed", "Opposite Signal")>> /\ SendOne
                               /\ ClearPosition
                               /\ ret' = "close_ok"
                          ELSE /\ calls' = <<OrderCall(side, qty, TRUE, FALSE)>>
                               /\ UNCHANGED <<engineVars, venueVars>>
                               /\ notes' = <<>> /\ delivery' = <<>>
                               /\ ret' = "close_fail"
               ELSE Nothing /\ ret' = IF sig = "HOLD" THEN "none" ELSE "hold"
        ELSE open_position(sig, df, raw, info, out, stops)

\* handle_signal(signal)
handle_signal(sig, raw, info, out, stops) ==
    IF sig = "None"
      THEN Nothing /\ ret' = "none"
      ELSE IF position # <<>>
        THEN IF is_opposite(position[1].side, sig)
               THEN close_position("Opposite Signal", out)
               ELSE Nothing /\ ret' = IF sig = "HOLD" THEN "none" ELSE "hold"
        ELSE open_position(sig, df, raw, info, out, stops)

\* run_cycle: handle_signal(signal), the last step of the cycle (printing a
\* signal that lacks the rsi, mfi or price it reads raises before
\* open_position is called)
HandleSignal ==
    /\ pc = "handle"
    /\ IF signal # "None" /\ position = <<>>
         THEN \/ Nothing /\ ret' = "raised"
              \/ \E raw \in (-1)..MaxRawQty, info \in InfoResp, out \in {"ok", "fail"},
                    stops \in {"ok", "fail"} :
                    handle_signal(signal, raw, info, out, stops)
         ELSE \E out \in {"ok", "fail"} :
                 handle_signal(signal, 0, <<>>, out, "ok")
    /\ IF ret' = "raised" THEN CycleError ELSE pc' = "idle" /\ EndOfCycle
    /\ trailSubs' = Counted(trailSubs, 0)
    /\ lockNotes' = Counted(lockNotes, 0)
    /\ UNCHANGED <<running, now>>

\* stop(), called once the loop was interrupted between two cycles (or was
\* never started)
Stop ==
    /\ pc \in {"constructed", "idle"}
    /\ running' = FALSE
    /\ \E out \in {"ok", "fail"} :
         IF position # <<>>
           THEN close_position("Bot Stop", out)
           ELSE Nothing /\ ret' = "none"
    /\ pc' = "stopped"
    /\ trailSubs' = Counted(trailSubs, 0)
    /\ lockNotes' = Counted(lockNotes, 0)
    /\ UNCHANGED <<df, signal, now>>

\* The venue fills a protective order (stop-loss, take-profit, trailing stop)
\* or liquidates: the position is gone
VenueFill ==
    /\ venPos # <<>>
    /\ venPos' = <<>>
    /\ venTrailing' = FALSE
    /\ venSLTP' = FALSE
    /\ trailSubs' = 0
    /\ lockNotes' = 0
    /\ calls' = <<>> /\ notes' = <<>> /\ delivery' = <<>> /\ ret' = "none"
    /\ UNCHANGED <<running, engineVars, pc, df, signal, now>>

Next ==
    \/ Run
    \/ GetMarketData
    \/ CheckPosition1
    \/ GenerateSignal
    \/ RiskManagement
    \/ CheckPosition2
    \/ DisplayStatus
    \/ HandleSignal
    \/ Stop
    \/ VenueFill

Spec == Init /\ [][Next]_vars

\* What open_position prepares for a signal at a price, for every sizing
\* result and instrument: the entry order and the stop submissions, each with
\* the values it was computed from (the entry order's detail is
\* <<raw quantity, min_qty, qty_step>>)
FormatOrder ==
    /\ \E sig \in {"BUY", "SELL"}, price \in Prices, raw \in 0..MaxFormatQty,
          info \in {<<i>> : i \in Instruments} :
         LET side == IF sig = "BUY" THEN "Buy" ELSE "Sell" IN
         calls' = <<[EntryCall(side, raw, info[1], FALSE)
                        EXCEPT !.detail = <<raw, info[1].min_qty, info[1].qty_step>>],
                    SlTpCall(sig, price, info[1], FALSE),
                    TrailingCall(price, Lower(side), info[1], FALSE)>>
    /\ UNCHANGED <<running, engineVars, venueVars, pc, df, signal, now, notes, delivery, ret,
                   trailSubs, lockNotes>>

\* format_qty and format_price applied to every input
SpecFormat == Init /\ [][FormatOrder]_vars

\* run()'s loop starts the next cycle once the last one has returned
LiveSpec == Init /\ [][Next]_vars /\ WF_vars(GetMarketData)

\* close_position(reason="Signal") called on the engine directly, outside a
\* cycle, whatever the engine holds
CloseCall ==
    /\ pc \in {"constructed", "idle", "stopped"}
    /\ \E out \in {"ok", "fail"} : close_position("Signal", out)
    /\ trailSubs' = Counted(trailSubs, 0)
    /\ lockNotes' = Counted(lockNotes, 0)
    /\ UNCHANGED <<running, pc, df, signal, now>>

\* the engine with its close_position open to direct calls
NextApi == Next \/ CloseCall
SpecApi == Init /\ [][NextApi]_vars

----
\* Properties

EntryOrders(cs) == {i \in 1..Len(cs) : cs[i].op = "order" /\ ~cs[i].reduceOnly}
CloseOrders(cs) == {i \in 1..Len(cs) : cs[i].op = "order" /\ cs[i].reduceOnly}
Cleared ==
    /\ position = <<>>
    /\ entry_price = 0
    /\ position_side = "None"
    /\ position_start_time = <<>>
    /\ profit_lock_active = FALSE

\* C1: every entry (non-reduce-only) market order the controller submits
\* reaches a venue that holds no open position for the symbol.
C1_EntryOnlyWhenVenueFlat ==
    \A i \in EntryOrders(calls) : calls[i].held = 0

\* C2: once profit_lock_active is true it stays true across every step in
\* which the venue's position stays open and no close order was accepted.
C2_LockMonotonic ==
    [][(profit_lock_active /\ SamePosition(venPos, venPos') /\ ret' # "close_ok")
          => profit_lock_active']_vars

\* C3: during the life of one venue position at most one trailing-stop
\* submission is sent and at most one profit_lock_activated notification is
\* emitted.
C3_LockFiresOnce ==
    trailSubs <= 1 /\ lockNotes <= 1

\* C4: entry_price is non-zero and position_side is non-null if and only if
\* position is non-null.
C4_EntryFieldsIffPosition ==
    /\ (entry_price # 0) <=> (position # <<>>)
    /\ (position_side # "None") <=> (position # <<>>)

\* C5: a cycle's handle_signal submits an entry order only for a BUY signal
\* (a Buy order) or a SELL signal (a Sell order), and submits no order at all
\* for a HOLD signal.
C5_EntryOnlyOnBuySell ==
    [][(pc = "handle" /\ pc' = "idle") =>
          /\ \A i \in EntryOrders(calls') :
                \/ signal = "BUY" /\ calls'[i].side = "Buy"
                \/ signal = "SELL" /\ calls'[i].side = "Sell"
          /\ signal = "HOLD" => CountOp(calls', "order") = 0]_vars

\* C6: when open_position fails (entry order rejected, instrument info
\* unavailable), the controller stays FLAT with position, entry_price,
\* position_side, position_start_time and profit_lock_active unchanged, no
\* stop-loss/take-profit submission and no trade_opened notification.
C6_FailedOpenChangesNothing ==
    [][(pc = "handle" /\ pc' = "idle" /\ ret' = "open_fail") =>
          /\ UNCHANGED engineVars
          /\ position' = <<>>
          /\ UNCHANGED venueVars
          /\ CountOp(calls', "sltp") = 0
          /\ CountNote(notes', "trade_opened") = 0]_vars

\* witness of C6: the venue rejected an entry order
C6_Witness ==
    /\ ret = "open_fail"
    /\ \E i \in EntryOrders(calls) : ~calls[i].accepted

\* C7: when the entry order was accepted and the stop-loss/take-profit
\* submission failed, open_position returned success, recorded entry_price,
\* position_side and the opening time, emitted trade_opened and sent no close
\* order: the accepted entry is the only order of the step.
C7_FailedStopsDoNotRollBack ==
    [][(\E i \in 1..Len(calls') : calls'[i].op = "sltp" /\ ~calls'[i].accepted) =>
          /\ ret' = "open_ok"
          /\ entry_price' = df
          /\ position_side' = Lower(calls'[1].side)
          /\ position_start_time' = <<now>>
          /\ CountNote(notes', "trade_opened") = 1
          /\ CloseOrders(calls') = {}
          /\ CountOp(calls', "order") = 1 /\ calls'[1].accepted]_vars

\* witness of C7: a position is open on the venue after its stop-loss/take-profit
\* submission failed
C7_Witness ==
    /\ venPos # <<>>
    /\ \E i \in 1..Len(calls) : calls[i].op = "sltp" /\ ~calls[i].accepted

\* the one order close_position sends for the held position
IsCloseOrderFor(c, pos) ==
    /\ c.op = "order" /\ c.reduceOnly
    /\ c.side = (IF pos.side = "Buy" THEN "Sell" ELSE "Buy")
    /\ c.qty = pos.size

\* C8 as stated: on an opposite signal the controller sends one reduce-only
\* order on the opposite side for the full position size, with reason
\* "Opposite Signal", and then clears all position fields.
C8_OppositeSignalAlwaysClears ==
    [][(pc = "handle" /\ pc' = "idle" /\ position # <<>>
          /\ is_opposite(position[1].side, signal)) =>
          /\ Len(calls') = 1 /\ IsCloseOrderFor(calls'[1], position[1])
          /\ Cleared']_vars

\* C8 amended: on an opposite signal the controller sends one reduce-only
\* order on the opposite side for the full position size; if the venue accepts
\* it, trade_closed is emitted with reason "Opposite Signal" and all position
\* fields are cleared; if not, nothing is emitted and the fields are unchanged.
C8_OppositeSignalCloses ==
    [][(pc = "handle" /\ pc' = "idle" /\ position # <<>>
          /\ is_opposite(position[1].side, signal)) =>
          /\ Len(calls') = 1 /\ IsCloseOrderFor(calls'[1], position[1])
          /\ IF calls'[1].accepted
               THEN /\ notes' = <<Note("trade_closed", "Opposite Signal")>>
                    /\ Cleared'
                    /\ ret' = "close_ok"
               ELSE /\ notes' = <<>>
                    /\ UNCHANGED engineVars
                    /\ ret' = "close_fail"]_vars

\* witness of C8: a position was closed on an opposite signal
C8_Witness ==
    /\ ret = "close_ok"
    /\ notes = <<Note("trade_closed", "Opposite Signal")>>
    /\ Cleared

\* C9: whenever stop() runs while the controller has an open position, also
\* one whose entry order was accepted in the cycle just finished, it sets
\* running to false and sends a reduce-only close order.
C9_StopForceCloses ==
    [][(pc # "stopped" /\ pc' = "stopped" /\ (position # <<>> \/ ret = "open_ok")) =>
          /\ running' = FALSE
          /\ CloseOrders(calls') # {}]_vars

\* C10: after stop() the loop no longer runs, every position field is cleared
\* and the venue holds no position.
C10_TerminalFlat ==
    pc = "stopped" => (~running /\ Cleared /\ venPos = <<>>)


\* C11: a refresh that finds the venue without a position while the controller
\* believed it had one clears all position state, sends no order and emits no
\* notification; and a close order or a trade_closed notification only ever
\* comes from a step that started with a position held, so none follows for the
\* position that was cleared.
C11_PassiveCloseIsSilent ==
    [][/\ (pc \in {"check1", "check2"} /\ pc' \in {"signal", "display"}
             /\ position # <<>> /\ venPos = <<>> /\ ret' # "check_fail") =>
            (Cleared' /\ calls' = <<>> /\ notes' = <<>> /\ ret' = "check_passive")
       /\ (CloseOrders(calls') # {} \/ CountNote(notes', "trade_closed") > 0) =>
            position # <<>>]_vars

\* witness of C11: a refresh has just cleared a position the venue no longer holds
C11_Witness ==
    ret = "check_passive" /\ Cleared /\ venPos = <<>> /\ calls = <<>>


\* C12: close_position with no position held returns failure, sends no order,
\* emits nothing and changes no state; a successful close sends one order,
\* emits one trade_closed and leaves no position held, so every further close
\* call is such a no-op.
C12_CloseIsIdempotent ==
    [][/\ (position = <<>> /\ ret' \in {"close_ok", "close_fail"}) =>
            /\ ret' = "close_fail"
            /\ calls' = <<>> /\ notes' = <<>>
            /\ UNCHANGED <<engineVars, venueVars>>
       /\ ret' = "close_ok" =>
            /\ position' = <<>>
            /\ Len(calls') = 1 /\ CloseOrders(calls') = {1}
            /\ notes' = <<Note("trade_closed", notes'[1].reason)>>]_vars

\* witness of C12: close_position was called with no position held
C12_Witness ==
    ret = "close_fail" /\ calls = <<>> /\ position = <<>>


\* C13: with a position open, a signal in the position's own direction makes
\* handle_signal send nothing to the venue, emit nothing and leave position,
\* entry_price, position_side, position_start_time and profit_lock_active (and
\* the venue) as they were.
C13_SameDirectionHolds ==
    [][(pc = "handle" /\ pc' = "idle" /\ position # <<>>
          /\ (\/ position[1].side = "Buy" /\ signal = "BUY"
              \/ position[1].side = "Sell" /\ signal = "SELL")) =>
          /\ calls' = <<>> /\ notes' = <<>>
          /\ UNCHANGED <<engineVars, venueVars>>
          /\ ret' = "hold"]_vars

\* witness of C13: a same-direction signal was held with the position kept
C13_Witness ==
    ret = "hold" /\ position # <<>> /\ venPos # <<>> /\ calls = <<>>

\* C14: a step that sends a close order sends no entry order, and an entry
\* order is only sent by a cycle's handle_signal that started FLAT with a
\* signal; so the cycle that closes on an opposite signal does not reverse.
C14_NoReversal ==
    [][/\ CloseOrders(calls') # {} => EntryOrders(calls') = {}
       /\ EntryOrders(calls') # {} =>
            (pc = "handle" /\ position = <<>> /\ signal # "None")
       /\ (pc = "handle" /\ pc' = "idle" /\ position # <<>>) => EntryOrders(calls') = {}]_vars

\* witness of C14: a cycle ended by closing on an opposite signal, the venue flat
C14_Witness ==
    /\ pc = "idle" /\ ret = "close_ok" /\ venPos = <<>>
    /\ CloseOrders(calls) = {1} /\ EntryOrders(calls) = {}
    /\ notes = <<Note("trade_closed", "Opposite Signal")>>


\* the three properties claimed of format_qty, for a quantity computed from
\* raw under min_qty and qty_step
QtyQuantized(qty, raw, min_qty, qty_step) ==
    /\ qty % qty_step = 0
    /\ qty >= min_qty
    /\ qty <= raw

\* C15 as stated: the quantity of every entry order is a multiple of qty_step,
\* at least min_qty and at most the raw quantity.
C15_QtyNeverAboveRaw ==
    \A i \in EntryOrders(calls) :
        QtyQuantized(calls[i].qty, calls[i].detail[1], calls[i].detail[2], calls[i].detail[3])

\* C15 amended: when min_qty is a multiple of qty_step, a raw quantity of at
\* least min_qty gives a multiple of qty_step that is at least min_qty and at
\* most the raw quantity, and a smaller raw quantity gives min_qty itself.
C15_QtyQuantizedAboveMin ==
    \A i \in EntryOrders(calls) :
        LET qty == calls[i].qty
            raw == calls[i].detail[1]
            min_qty == calls[i].detail[2]
            qty_step == calls[i].detail[3]
        IN  min_qty % qty_step = 0 =>
              IF raw >= min_qty THEN QtyQuantized(qty, raw, min_qty, qty_step)
                                ELSE qty = min_qty

\* witness of C15: a raw quantity above min_qty was truncated to the step
C15_Witness ==
    \E i \in EntryOrders(calls) :
        /\ calls[i].detail[2] % calls[i].detail[3] = 0
        /\ calls[i].detail[1] > calls[i].detail[2]
        /\ calls[i].qty < calls[i].detail[1]

\* v is a multiple of tick and no multiple of tick is strictly closer to x
NearestMultiple(v, x, tick) ==
    v % tick = 0 /\ 2 * Abs(v - x) <= tick

\* C16: every stop-loss, take-profit and trailing distance sent to the venue
\* is the multiple of tick_size nearest to the price it was computed from.
C16_PricesRoundedToTick ==
    \A i \in 1..Len(calls) :
        LET d == calls[i].detail IN
        /\ calls[i].op = "sltp" =>
              NearestMultiple(d[3], d[2], d[1]) /\ NearestMultiple(d[5], d[4], d[1])
        /\ calls[i].op = "trailing" => NearestMultiple(d[3], d[2], d[1])

\* witness of C16: a stop-loss was sent that had to be rounded up to the tick
C16_Witness ==
    \E i \in 1..Len(calls) :
        calls[i].op = "sltp" /\ calls[i].accepted /\ calls[i].detail[3] > calls[i].detail[2]

\* C17: when open_position or _set_trailing_stop meets a configuration error
\* (no instrument info, or arithmetic that raises), the order or the
\* trailing-stop submission is skipped, an error notification is emitted and
\* the loop keeps running.
C17_ConfigErrorNotified ==
    [][/\ (pc = "handle" /\ position = <<>> /\ signal # "None"
              /\ ret' = "open_fail" /\ calls' = <<>>) =>
            (CountNote(notes', "error") >= 1 /\ running' /\ pc' = "idle")
       /\ (pc = "risk" /\ ~profit_lock_active /\ profit_lock_active' /\ calls' = <<>>) =>
            (CountNote(notes', "error") >= 1 /\ running' /\ pc' = "check2")]_vars

\* C18: a notification the channel failed to deliver changes nothing: the
\* close still clears the position state and returns success, the open still
\* returns success, the profit lock still stands and the cycle goes on.
C18_DeliveryFailureIsHarmless ==
    [][\A i \in 1..Len(notes') :
          ~delivery'[i] =>
            /\ notes'[i].kind = "trade_closed" => (Cleared' /\ ret' = "close_ok")
            /\ notes'[i].kind = "trade_opened" =>
                 (ret' = "open_ok" /\ pc' = "idle" /\ entry_price' = df)
            /\ notes'[i].kind = "profit_lock_activated" =>
                 (ret' = "none" /\ pc' = "check2" /\ profit_lock_active')
            /\ pc \in {"risk", "handle"} => (running' /\ pc' # "stopped")]_vars

\* witness of C18: an opposite signal closed the position although the
\* trade_closed notification was not delivered
C18_Witness ==
    /\ delivery = <<FALSE>>
    /\ notes = <<Note("trade_closed", "Opposite Signal")>>
    /\ ret = "close_ok" /\ Cleared /\ running /\ pc = "idle"

\* C19: an exception raised inside a cycle ends that cycle only: run() is
\* still looping with running true, and the next cycle starts unless stop()
\* comes first.
C19_CycleErrorsAreCaught ==
    /\ [][ret' = "raised" => (pc' = "idle" /\ running /\ running')]_vars
    /\ \A t \in 1..(MaxTime - 1) :
          (ret = "raised" /\ now = t) ~> (now > t \/ pc = "stopped")

\* witness of C19: a cycle ended by an exception, with time left for another
C19_Witness ==
    ret = "raised" /\ pc = "idle" /\ running /\ now < MaxTime

\* C20: right after a check_position whose query succeeded, the engine holds
\* a position iff the venue does, with the venue's side, size and average
\* price, entry_price being that average price and position_side that side;
\* and whenever a position is held, entry_price is its avg_price.
C20_RefreshMirrorsVenue ==
    /\ ret \in {"check_open", "check_flat", "check_passive"} =>
         /\ (position # <<>>) <=> (venPos # <<>>)
         /\ position # <<>> =>
              /\ position[1].side = venPos[1].side
              /\ position[1].size = venPos[1].size
              /\ position[1].avg_price = venPos[1].avgPrice
              /\ entry_price = venPos[1].avgPrice
              /\ position_side = Lower(venPos[1].side)
    /\ position # <<>> => entry_price = position[1].avg_price

\* witness of C20: a refresh found a position entered at another price than
\* the last close
C20_Witness ==
    /\ ret = "check_open"
    /\ position # <<>> /\ venPos # <<>>
    /\ entry_price = venPos[1].avgPrice /\ entry_price # df

\* a trailing-stop submission of the step that the venue accepted
TrailingAccepted(cs) == \E i \in 1..Len(cs) : cs[i].op = "trailing" /\ cs[i].accepted

\* C21: the profit-lock flag is set, and profit_lock_activated emitted, only
\* in a step whose trailing-stop submission the venue accepted.
C21_LockNeedsTrailingStop ==
    [][(pc = "risk" /\ pc' # "risk"
          /\ \/ ~profit_lock_active /\ profit_lock_active'
             \/ CountNote(notes', "profit_lock_activated") > 0) =>
          TrailingAccepted(calls')]_vars

C23_FlatMeansUnlocked ==
    /\ position = <<>> => ~profit_lock_active
    /\ ret \in {"open_ok", "close_ok"} => ~profit_lock_active

\* witness of C23: stop() closed the position it held
C23_Witness ==
    /\ pc = "stopped" /\ ret = "close_ok"
    /\ notes = <<Note("trade_closed", "Bot Stop")>>
    /\ position = <<>> /\ ~profit_lock_active

\* C24: a close order the venue did not accept makes close_position return
\* failure with no notification and the five position fields unchanged, and
\* trade_closed is emitted only in a step whose close order was accepted.
C24_RejectedCloseKeepsOpen ==
    [][/\ \A i \in CloseOrders(calls') :
            ~calls'[i].accepted =>
               /\ ret' = "close_fail" /\ notes' = <<>>
               /\ UNCHANGED engineVars
               /\ position' # <<>>
       /\ CountNote(notes', "trade_closed") > 0 =>
            \E i \in CloseOrders(calls') : calls'[i].accepted]_vars

\* witness of C24: a close order was rejected and the position is still held
C24_Witness ==
    /\ ret = "close_fail" /\ notes = <<>>
    /\ position # <<>> /\ venPos # <<>>
    /\ \E i \in CloseOrders(calls) : ~calls[i].accepted

====
